---- MODULE Spec2Model ----
(***************************************************************************)
(* Model of easydl/common/dataloader.py: BaseDataset (construction, filter *)
(* pass, weighting, get_data), TestDataset, CombinedDataset and the        *)
(* argument handling of CustomDataLoader.                                  *)
(*                                                                         *)
(* Numbers: weights are exact rationals <<n, d>> (n/d).  <<0, 0>> is the   *)
(* float NaN produced by 0/0 and <<1, 0>> is +inf.  The float32 rounding   *)
(* of numpy is not modelled.                                               *)
(* Python values: ndarrays and lists are sequences, None is the record     *)
(* [kind |-> "None"].                                                      *)
(***************************************************************************)
EXTENDS Integers, Sequences, FiniteSets, TLC

\* ---------------------------------------------------------------- bounds
MaxLen == 3       \* longest record list of a list-backed source
TestMaxN == 5     \* largest N given to TestDataset at construction
MaxN == 3         \* largest dataset that is iterated
MaxEpochs == 2    \* get_data() calls made on one dataset

\* --------------------------------------------------------------- helpers
RECURSIVE GCD(_, _)
GCD(a, b) == IF b = 0 THEN a ELSE GCD(b, a % b)

RECURSIVE SumSeq(_)
SumSeq(s) == IF s = <<>> THEN 0 ELSE Head(s) + SumSeq(Tail(s))

RECURSIVE ProdSeq(_)
ProdSeq(s) == IF s = <<>> THEN 1 ELSE Head(s) * ProdSeq(Tail(s))

Range(s) == {s[i] : i \in DOMAIN s}
Last(q) == q[Len(q)]
SeqsUpTo(S, n) == UNION {[1..k -> S] : k \in 0..n}

NaN == <<0, 0>>
Inf == <<1, 0>>
Frac(n, d) == IF d = 0 THEN (IF n = 0 THEN NaN ELSE Inf)
              ELSE IF n = 0 THEN <<0, 1>>
              ELSE <<n \div GCD(n, d), d \div GCD(n, d)>>

\* ------------------------------------------------- constructor arguments
None == [kind |-> "None", arr |-> <<>>, t |-> 0, a |-> 0, b |-> 0]
\* label ids of the lines of a list file
LabelIds == {0, 1}
\* raw weights: 0, and 2 : 3 for a max/min ratio of exactly 1.5
WeightVals == {0, 2, 3}
\* raw weights of the explicit arrays tried at construction
ArrayVals == {0, 1}

SkipPreds ==
    {[kind |-> "None", t |-> 0]}
    \cup {[kind |-> "label_gt", t |-> t] : t \in {0, 5}}
    \cup {[kind |-> "desc_ge", t |-> t] : t \in 1..(MaxLen - 1)}

\* skip_pred(data, label, is_train); the default is lambda ...: False
SkipPred(sp, data, label, is_train) ==
    CASE sp.kind = "None" -> FALSE
      [] sp.kind = "label_gt" -> label > sp.t
      [] sp.kind = "desc_ge" -> data[1] >= sp.t

SampleWeights(maxlen, vals) ==
    {None}
    \cup {[kind |-> k, arr |-> w, t |-> 0, a |-> 0, b |-> 0] :
             k \in {"list", "ndarray"}, w \in SeqsUpTo(vals, maxlen)}
    \cup {[kind |-> "func", arr |-> <<>>, t |-> t, a |-> a, b |-> b] :
             t \in {0, 1}, a \in WeightVals, b \in WeightVals}

\* bool(x) as Python evaluates `sample_weight or ...`; "raise" is the
\* ValueError numpy raises for an array of more than one element
Truth(sw) ==
    CASE sw.kind = "None" -> "false"
      [] sw.kind = "func" -> "true"
      [] sw.kind = "list" -> IF Len(sw.arr) > 0 THEN "true" ELSE "false"
      [] sw.kind = "ndarray" ->
            IF Len(sw.arr) > 1 THEN "raise"
            ELSE IF Len(sw.arr) = 1 /\ sw.arr[1] # 0 THEN "true" ELSE "false"

\* ------------------------------------------------------------ _fill_data
\* TestDataset._fill_data: the ith record is ([i, i+1], 2i+1)
TestDataset_fill_data(N) ==
    [datas |-> [i \in 1..N |-> <<i - 1, i>>],
     labels |-> [i \in 1..N |-> 2 * (i - 1) + 1]]

\* FileListDataset._fill_data: one record per line; lines[k] is the label
\* id of line k and the path of line k is the descriptor <<k - 1>>
FileListDataset_fill_data(lines) ==
    [datas |-> [k \in 1..Len(lines) |-> <<k - 1>>],
     labels |-> [k \in 1..Len(lines) |-> lines[k]]]

_fill_data(a) ==
    IF a.cls = "TestDataset" THEN TestDataset_fill_data(a.N)
    ELSE FileListDataset_fill_data(a.lines)

\* ----------------------------------------------------- BaseDataset.__init__
\* a counter that never counts: every label gets 1.0
Counter_NoCount(labels) == [x \in Range(labels) |-> <<1, 1>>]

\* Counter(np.asarray(self.labels).flatten()) followed by
\* counter[x] = 1.0 / counter[x]
Counter(labels) ==
    [x \in Range(labels) |->
        <<1, Cardinality({i \in DOMAIN labels : labels[i] = x})>>]

\* the callable self.sample_weight(data, label) as a number n/d
CallWeight(sw, data, label) ==
    CASE sw.kind = "default" -> <<1, 1>>
      [] sw.kind = "func" -> <<IF label <= sw.t THEN sw.a ELSE sw.b, 1>>
      [] sw.kind = "auto" -> sw.counter[label]

RECURSIVE FilterPairs_KeepSkipped(_, _, _, _)
\* the filter with the test inverted: keeps the records skip_pred rejects
FilterPairs_KeepSkipped(datas, labels, sp, is_train) ==
    IF datas = <<>> \/ labels = <<>> THEN <<>>
    ELSE (IF SkipPred(sp, Head(datas), Head(labels), is_train)
             THEN << <<Head(datas), Head(labels)>> >> ELSE <<>>)
         \o FilterPairs_KeepSkipped(Tail(datas), Tail(labels), sp, is_train)

RECURSIVE FilterPairs(_, _, _, _)
\* [[data, label] for (data, label) in zip(datas, labels)
\*                 if not skip_pred(data, label, is_train)]
FilterPairs(datas, labels, sp, is_train) ==
    IF datas = <<>> \/ labels = <<>> THEN <<>>
    ELSE (IF ~SkipPred(sp, Head(datas), Head(labels), is_train)
             THEN << <<Head(datas), Head(labels)>> >> ELSE <<>>)
         \o FilterPairs(Tail(datas), Tail(labels), sp, is_train)

\* self._weight / np.sum(self._weight) for raw weights given as n/d
Normalize(raw) ==
    LET D == ProdSeq([i \in DOMAIN raw |-> raw[i][2]])
        s == [i \in DOMAIN raw |-> raw[i][1] * (D \div raw[i][2])]
        S == SumSeq(s)
    IN  [i \in DOMAIN raw |-> Frac(s[i], S)]

\* a < b, a = b on the numbers n/d (d >= 0); any comparison with NaN is false
IsNaN(x) == x = NaN
Less(x, y) == ~IsNaN(x) /\ ~IsNaN(y) /\ x # y
              /\ (IF x[2] = 0 THEN FALSE
                  ELSE IF y[2] = 0 THEN TRUE
                  ELSE x[1] * y[2] < y[1] * x[2])

\* np.max / np.min: NaN if any element is NaN
NpMax(w) == IF \E i \in DOMAIN w : IsNaN(w[i]) THEN NaN
            ELSE w[CHOOSE i \in DOMAIN w : \A j \in DOMAIN w : ~Less(w[i], w[j])]
NpMin(w) == IF \E i \in DOMAIN w : IsNaN(w[i]) THEN NaN
            ELSE w[CHOOSE i \in DOMAIN w : \A j \in DOMAIN w : ~Less(w[j], w[i])]

\* x / y of two non-negative numbers
Div(x, y) == IF IsNaN(x) \/ IsNaN(y) THEN NaN
             ELSE IF x[2] = 0 /\ y[2] = 0 THEN NaN
             ELSE IF x[2] = 0 THEN Inf
             ELSE IF y[2] = 0 THEN <<0, 1>>
             ELSE Frac(x[1] * y[2], x[2] * y[1])

\* the flag with <= in place of <
uniform_weight_flag_LE(w) ==
    \/ Less(Div(NpMax(w), NpMin(w)), <<3, 2>>)
    \/ Div(NpMax(w), NpMin(w)) = <<3, 2>>

\* True if np.max(w) / np.min(w) < 1.5 else False
uniform_weight_flag(w) == Less(Div(NpMax(w), NpMin(w)), <<3, 2>>)

DefaultWeight ==
    [kind |-> "default", arr |-> <<>>, t |-> 0, a |-> 0, b |-> 0, counter |-> <<>>]
AutoWeight(counter) ==
    [kind |-> "auto", arr |-> <<>>, t |-> 0, a |-> 0, b |-> 0, counter |-> counter]
GivenWeight(sw) ==
    [kind |-> sw.kind, arr |-> sw.arr, t |-> sw.t, a |-> sw.a, b |-> sw.b,
     counter |-> <<>>]

NoObj == [cls |-> "None"]
Raise(e) == [err |-> e, obj |-> NoObj]

\* BaseDataset._post_init on an object whose datas/labels are filled and
\* whose self.sample_weight is sw
_post_init(a, filled, sw) ==
    LET tmp == FilterPairs(filled.datas, filled.labels, a.skip_pred, a.is_train)
        datas == [i \in DOMAIN tmp |-> tmp[i][1]]
        labels == [i \in DOMAIN tmp |-> tmp[i][2]]
        callable == sw.kind \in {"default", "func", "auto"}
        raw == IF callable
               THEN [i \in DOMAIN datas |-> CallWeight(sw, datas[i], labels[i])]
               ELSE [i \in DOMAIN sw.arr |-> <<sw.arr[i], 1>>]
        w == Normalize(raw)
    IN  IF Len(raw) # Len(datas) THEN Raise("AssertionError")
        ELSE IF Len(w) = 0 THEN Raise("ValueError")
        ELSE [err |-> "none",
              obj |-> [cls |-> a.cls, is_train |-> a.is_train,
                       return_id |-> a.return_id, skip_pred |-> a.skip_pred,
                       sample_weight |-> sw, datas |-> datas, labels |-> labels,
                       unreadable |-> a.unreadable,
                       _weight |-> w,
                       uniform_weight_flag |-> uniform_weight_flag(w)]]

\* self.sample_weight = sample_weight or (lambda data, label: 1.0)
OrDefault(sample_weight) ==
    IF Truth(sample_weight) = "true" THEN GivenWeight(sample_weight)
    ELSE DefaultWeight

\* BaseDataset.__init__ with the arguments a; the result is the object or
\* the exception that leaves __init__
BaseDataset__init__(a) ==
    LET filled == _fill_data(a)
    IN  IF Truth(a.sample_weight) = "raise" THEN Raise("ValueError")
        ELSE IF a.auto_weight /\ a.sample_weight # None
             THEN Raise("AssertionError")
        ELSE _post_init(a, filled,
                        IF a.auto_weight THEN AutoWeight(Counter(filled.labels))
                        ELSE OrDefault(a.sample_weight))

size(obj) == Len(obj.datas)

\* ------------------------------------------------------------- get_data
Nd(v) == [ty |-> "ndarray", v |-> v]
Num(n) == [ty |-> "number", v |-> n]

\* imread + imresize of the file at a path: the pixels of that file
Image(path) == Nd(<<path[1], path[1]>>)

\* TestDataset._get_one_data: (np.asarray(data), label)
TestDataset_get_one_data(data, label) == <<Nd(data), Num(label)>>

\* BaseImageDataset._get_one_data: (im, label)
BaseImageDataset_get_one_data(data, label) == <<Image(data), Num(label)>>

\* imread(data, mode='RGB') raises IOError for a file that cannot be read
ImreadRaises(obj, data) == obj.cls # "TestDataset" /\ data \in obj.unreadable

\* self._get_one_data(self.datas[id], self.labels[id]) of a plain dataset
_get_one_data(obj, data, label) ==
    IF obj.cls = "TestDataset" THEN TestDataset_get_one_data(data, label)
    ELSE BaseImageDataset_get_one_data(data, label)

\* lines 222-226: the flat list data + label + ([id] if return_id else [])
Flatten(obj, data, label, id) ==
    LET label1 == IF label.ty = "number" THEN Nd(<<label.v>>) ELSE label
        dataL == IF data.ty = "ndarray" THEN <<data>> ELSE data.v
        labelL == IF label1.ty = "ndarray" THEN <<label1>> ELSE label1.v
    IN  dataL \o labelL \o (IF obj.return_id THEN <<Nd(<<id>>)>> ELSE <<>>)

\* np.random.choice(a, p = p): raises ValueError unless p is a probability
\* vector as long as a; otherwise draws an element whose probability is > 0
ChoiceRaises(a, p) ==
    \/ Len(a) # Len(p)
    \/ \E k \in DOMAIN p : p[k][2] = 0 \/ p[k][1] < 0
    \/ SumSeq([k \in DOMAIN p |-> p[k][1] * (ProdSeq([j \in DOMAIN p |-> p[j][2]]) \div p[k][2])])
         # ProdSeq([j \in DOMAIN p |-> p[j][2]])
ChoiceSupport(a, p) == {a[k] : k \in {j \in DOMAIN p : p[j][1] > 0}}

\* list(range(n))
RangeList(n) == [k \in 1..n |-> k - 1]
\* a shuffle that may repeat elements
Shuffles_Repeating(n) == [1..n -> 0..(n - 1)]

\* the orders random.shuffle can leave list(range(n)) in
Shuffles(n) == {q \in [1..n -> 0..(n - 1)] : \A x, y \in 1..n : q[x] = q[y] => x = y}

\* ids after lines 207-210
InitIds(obj) ==
    IF obj.uniform_weight_flag THEN Shuffles(size(obj)) ELSE {RangeList(size(obj))}

\* the draw without the is_train test: test mode follows the shuffled ids
DrawIds_NoModeTest(obj, ids, step) ==
    IF obj.uniform_weight_flag THEN {ids[step + 1]}
    ELSE IF ~obj.is_train THEN {step}
    ELSE IF ChoiceRaises(ids, obj._weight) THEN {}
    ELSE ChoiceSupport(ids, obj._weight)

\* lines 212-218: the ids step `step` (0-based) can fetch; {} when
\* np.random.choice raises
DrawIds(obj, ids, step) ==
    IF ~obj.is_train THEN {step}
    ELSE IF obj.uniform_weight_flag THEN {ids[step + 1]}
    ELSE IF ChoiceRaises(ids, obj._weight) THEN {}
    ELSE ChoiceSupport(ids, obj._weight)

\* ------------------------------------------------------------------ state
VARIABLES
    args,     \* the arguments of the dataset constructor call, or NoArgs
    ds,       \* the dataset object, NoObj before / without construction
    err,      \* the exception that left the constructor, "none" otherwise
    it,       \* the generator returned by the latest ds.get_data()
    it2,      \* a second generator of ds.get_data(), alive beside `it`
    epoch,    \* number of ds.get_data() calls so far
    cargs,    \* the arguments of the CombinedDataset constructor call
    comb,     \* the CombinedDataset object (self.iters included)
    cerr,     \* the exception that left its constructor, "none" otherwise
    cit,      \* the generator returned by the latest comb.get_data()
    cit2,     \* a second generator of comb.get_data(), alive beside `cit`
    cepoch,   \* number of comb.get_data() calls so far
    largs,    \* the arguments of the CustomDataLoader constructor call
    dl        \* the CustomDataLoader object

dsvars == <<args, ds, err, it, it2, epoch>>
combvars == <<cargs, comb, cerr, cit, cit2, cepoch>>
dlvars == <<largs, dl>>
vars == <<args, ds, err, it, it2, epoch, cargs, comb, cerr, cit, cit2, cepoch,
          largs, dl>>

NoArgs == [cls |-> "None"]
NoIter == [st |-> "none", ids |-> <<>>, i |-> 0, out |-> <<>>, fetched |-> <<>>,
           support |-> {}, exc |-> "none"]
NoCombIter == [st |-> "none", i |-> 0, k |-> -1, last |-> <<>>, exc |-> "none",
               where |-> "none"]
NoCombArgs == [datasets |-> <<>>, weights |-> <<>>]
NoLoaderArgs == [dataset |-> NoObj]
LoaderIdle ==
    /\ largs = NoLoaderArgs
    /\ dl = NoObj
CombIdle ==
    /\ cargs = NoCombArgs
    /\ comb = NoObj
    /\ cerr = "none"
    /\ cit = NoCombIter
    /\ cit2 = NoCombIter
    /\ cepoch = 0

NoSkip == [kind |-> "None", t |-> 0]

\* TestDataset(N, is_train, skip_pred, None, sample_weight, auto_weight, return_id)
TestDatasetArgs(n, tr, sp, sw, aw, rid) ==
    [cls |-> "TestDataset", N |-> n, lines |-> <<>>, is_train |-> tr,
     skip_pred |-> sp, sample_weight |-> sw, auto_weight |-> aw, return_id |-> rid,
     unreadable |-> {}]

\* FileListDataset(list_path, ...) for a list file whose lines carry the labels ls
FileListDatasetArgs(ls, tr, sp, sw, aw, rid) ==
    [cls |-> "FileListDataset", N |-> 0, lines |-> ls, is_train |-> tr,
     skip_pred |-> sp, sample_weight |-> sw, auto_weight |-> aw, return_id |-> rid,
     unreadable |-> {}]

\* the same call when the image files at the paths `bad` cannot be read
WithUnreadable(a, bad) == [a EXCEPT !.unreadable = bad]

\* the skip_pred and sample_weight arguments of the datasets that are iterated
IterSkipPreds == {s \in SkipPreds : s.kind \in {"None", "desc_ge"}}
IterWeights(n) == {w \in SampleWeights(n, WeightVals) : w.kind # "ndarray" /\ Len(w.arr) \in {0, n}}

Init ==
    /\ args = NoArgs
    /\ ds = NoObj
    /\ err = "none"
    /\ it = NoIter
    /\ it2 = NoIter
    /\ epoch = 0
    /\ CombIdle
    /\ LoaderIdle

\* ds = Cls(**a)
Construct(a) ==
    /\ args = NoArgs
    /\ args' = a
    /\ ds' = BaseDataset__init__(a).obj
    /\ err' = BaseDataset__init__(a).err
    /\ UNCHANGED <<it, it2, epoch>>
    /\ UNCHANGED combvars
    /\ UNCHANGED dlvars

\* a constructor call about to run: any class, any arguments
InitCall ==
    /\ \/ \E n \in 0..TestMaxN, tr \in BOOLEAN, sp \in SkipPreds,
             sw \in SampleWeights(MaxLen, ArrayVals), aw \in BOOLEAN :
              args = TestDatasetArgs(n, tr, sp, sw, aw, FALSE)
       \/ \E ls \in SeqsUpTo(LabelIds, MaxLen), tr \in BOOLEAN, sp \in SkipPreds,
             sw \in SampleWeights(MaxLen, ArrayVals), aw \in BOOLEAN :
              args = FileListDatasetArgs(ls, tr, sp, sw, aw, FALSE)
    /\ ds = NoObj
    /\ err = "running"
    /\ it = NoIter
    /\ it2 = NoIter
    /\ epoch = 0
    /\ CombIdle
    /\ LoaderIdle

\* the constructor call runs to its end
Build ==
    /\ err = "running"
    /\ ds' = BaseDataset__init__(args).obj
    /\ err' = BaseDataset__init__(args).err
    /\ UNCHANGED <<args, it, it2, epoch>>
    /\ UNCHANGED combvars
    /\ UNCHANGED dlvars

\* construction of a dataset that is then iterated
NewIterated ==
    \/ \E n \in 1..MaxN, tr \in BOOLEAN, sp \in IterSkipPreds, rid \in BOOLEAN :
            Construct(TestDatasetArgs(n, tr, sp, None, FALSE, rid))
    \/ \E n \in 1..MaxN, tr \in BOOLEAN :
         \E sw \in IterWeights(n) :
            Construct(TestDatasetArgs(n, tr, NoSkip, sw, FALSE, FALSE))
    \/ \E ls \in SeqsUpTo(LabelIds, MaxN), tr \in BOOLEAN, aw \in BOOLEAN :
            Construct(FileListDatasetArgs(ls, tr, NoSkip, None, aw, FALSE))

\* it = ds.get_data(): a fresh generator; its body runs at the first next()
GetData ==
    /\ ds # NoObj
    /\ it.st \in {"none", "done", "error"}
    /\ epoch < MaxEpochs
    /\ it' = [NoIter EXCEPT !.st = "created"]
    /\ epoch' = epoch + 1
    /\ UNCHANGED <<args, ds, err, it2>>
    /\ UNCHANGED combvars
    /\ UNCHANGED dlvars

\* the item yielded for index id
Item(obj, id) ==
    LET r == _get_one_data(obj, obj.datas[id + 1], obj.labels[id + 1])
    IN  Flatten(obj, r[1], r[2], id)

\* lines 219-226 for the drawn index id: the generator suspends at the
\* yield, or the exception of _get_one_data leaves the generator
Fetch(obj, g, ids, id) ==
    IF ImreadRaises(obj, obj.datas[id + 1])
    THEN [g EXCEPT !.st = "error", !.ids = ids, !.exc = "IOError"]
    ELSE [st |-> "running", ids |-> ids, i |-> g.i + 1,
          out |-> Append(g.out, Item(obj, id)),
          fetched |-> Append(g.fetched, id),
          support |-> DrawIds(obj, ids, g.i), exc |-> "none"]

\* one resumption of the generator from the state g, its ids being `ids`:
\* the set of generator states it can suspend or finish in
Resume(obj, g, ids) ==
    IF g.i >= size(obj)
    THEN {[g EXCEPT !.st = "done", !.ids = ids]}
    ELSE IF DrawIds(obj, ids, g.i) = {}
    THEN {[g EXCEPT !.st = "error", !.ids = ids, !.exc = "ValueError"]}
    ELSE {Fetch(obj, g, ids, id) : id \in DrawIds(obj, ids, g.i)}

\* next(g) on a generator of obj.get_data()
GenNext(obj, g) ==
    IF g.st = "created"
    THEN UNION {Resume(obj, g, ids) : ids \in InitIds(obj)}
    ELSE Resume(obj, g, g.ids)

\* next(g) with what the caller sees: an item ("yield"), StopIteration
\* ("stop") or another exception ("raise"); a generator that has finished,
\* normally or by an exception, raises StopIteration
GenStep(obj, g) ==
    IF g.st \in {"done", "error"} THEN {[g |-> g, sig |-> "stop"]}
    ELSE {[g |-> h,
           sig |-> IF h.st = "running" THEN "yield"
                   ELSE IF h.st = "done" THEN "stop" ELSE "raise"] :
             h \in GenNext(obj, g)}

\* next(it)
Next_it ==
    /\ it.st \in {"created", "running"}
    /\ it' \in GenNext(ds, it)
    /\ UNCHANGED <<args, ds, err, it2, epoch>>
    /\ UNCHANGED combvars
    /\ UNCHANGED dlvars

\* -------------------------------------------------------- CombinedDataset
MaxK == 2         \* most children of a CombinedDataset
\* sizes of the children of a CombinedDataset
ChildSizes == {1, 2}
\* mixing weights: a child left out (0) or mixed in equally (1)
MixVals == {0, 1}
MaxCombEpochs == 2   \* get_data() calls made on one CombinedDataset

RECURSIVE Concat(_)
\* sum([...], [])
Concat(ss) == IF ss = <<>> THEN <<>> ELSE Head(ss) \o Concat(Tail(ss))

Created == [NoIter EXCEPT !.st = "created"]

\* the arguments BaseDataset.__init__ gets from CombinedDataset.__init__
CombinedBaseArgs ==
    [cls |-> "CombinedDataset", N |-> 0, lines |-> <<>>, is_train |-> TRUE,
     skip_pred |-> NoSkip, sample_weight |-> None, auto_weight |-> FALSE,
     return_id |-> FALSE, unreadable |-> {}]

\* CombinedDataset._fill_data
CombinedDataset_fill_data(datasets, weights) ==
    [datas |-> Concat([k \in DOMAIN datasets |-> datasets[k].datas]),
     labels |-> Concat([k \in DOMAIN datasets |-> datasets[k].labels]),
     weights |-> Normalize([k \in DOMAIN weights |-> <<weights[k], 1>>]),
     iters |-> [k \in DOMAIN datasets |-> Created],
     indexes |-> RangeList(Len(datasets))]

\* CombinedDataset(datasets, weights): the object, or the exception
CombinedDataset__init__(datasets, weights) ==
    LET f == CombinedDataset_fill_data(datasets, weights)
        r == _post_init(CombinedBaseArgs, f, OrDefault(None))
    IN  IF r.err # "none" THEN r
        ELSE [err |-> "none",
              obj |-> [cls |-> "CombinedDataset", is_train |-> TRUE,
                       return_id |-> FALSE, datas |-> r.obj.datas,
                       labels |-> r.obj.labels, _weight |-> r.obj._weight,
                       uniform_weight_flag |-> r.obj.uniform_weight_flag,
                       datasets |-> datasets, weights |-> f.weights,
                       iters |-> f.iters, indexes |-> f.indexes]]

\* what pulling from child `index` (0-based) does, lines 287-291
PullChild(c, index) ==
    LET child == c.datasets[index + 1]
        first == GenStep(child, c.iters[index + 1])
        again == GenStep(child, Created)
        Res(r) == [iters |-> [c.iters EXCEPT ![index + 1] = r.g], k |-> index,
                   sig |-> IF r.sig = "yield" THEN "return" ELSE "raise",
                   val |-> IF r.sig = "yield" THEN Last(r.g.out) ELSE <<>>,
                   exc |-> r.g.exc, where |-> "child"]
    IN  {Res(r) : r \in {x \in first : x.sig # "stop"}}
        \cup (IF \E x \in first : x.sig = "stop"
                 THEN {Res(r) : r \in again} ELSE {})

\* CombinedDataset._get_one_data(data, label): the outcomes of one call
CombinedDataset_get_one_data(c) ==
    IF ChoiceRaises(c.indexes, c.weights)
    THEN {[iters |-> c.iters, k |-> -1, sig |-> "raise", val |-> <<>>,
           exc |-> "ValueError", where |-> "choice"]}
    ELSE UNION {PullChild(c, index) : index \in ChoiceSupport(c.indexes, c.weights)}

\* a CombinedDataset constructor call about to run
InitComb ==
    /\ args = NoArgs /\ ds = NoObj /\ err = "none" /\ it = NoIter /\ epoch = 0
    /\ it2 = NoIter
    /\ LoaderIdle
    /\ \E K \in 0..MaxK :
         \E ch \in [1..K -> ChildSizes \X BOOLEAN \X BOOLEAN],
            w \in SeqsUpTo(MixVals, MaxK + 1) :
            cargs = [datasets |->
                        [k \in 1..K |->
                            BaseDataset__init__(
                                TestDatasetArgs(ch[k][1], ch[k][2], NoSkip, None,
                                                FALSE, ch[k][3])).obj],
                     weights |-> w]
    /\ comb = NoObj
    /\ cerr = "running"
    /\ cit = NoCombIter
    /\ cit2 = NoCombIter
    /\ cepoch = 0

\* the CombinedDataset constructor call runs to its end
BuildComb ==
    /\ cerr = "running"
    /\ comb' = CombinedDataset__init__(cargs.datasets, cargs.weights).obj
    /\ cerr' = CombinedDataset__init__(cargs.datasets, cargs.weights).err
    /\ UNCHANGED <<cargs, cit, cit2, cepoch>>
    /\ UNCHANGED dsvars
    /\ UNCHANGED dlvars

\* a get_data() that rebuilds self.iters at the start of every epoch
CombGetData_ResetIters ==
    /\ comb # NoObj
    /\ cit.st \in {"none", "done", "error"}
    /\ cepoch < MaxCombEpochs
    /\ cit' = [NoCombIter EXCEPT !.st = "created"]
    /\ cepoch' = cepoch + 1
    /\ comb' = [comb EXCEPT !.iters = [k \in DOMAIN comb.iters |-> Created]]
    /\ UNCHANGED <<cargs, cerr, cit2>>
    /\ UNCHANGED dsvars
    /\ UNCHANGED dlvars

\* cit = comb.get_data()
CombGetData ==
    /\ comb # NoObj
    /\ cit.st \in {"none", "done", "error"}
    /\ cepoch < MaxCombEpochs
    /\ cit' = [NoCombIter EXCEPT !.st = "created"]
    /\ cepoch' = cepoch + 1
    /\ UNCHANGED <<cargs, comb, cerr, cit2>>
    /\ UNCHANGED dsvars
    /\ UNCHANGED dlvars

\* next(g) on a generator of c.get_data(), c a CombinedDataset:
\* BaseDataset.get_data run on the combinator.  The order of the
\* combinator's own ids picks only the (data, label) arguments that
\* _get_one_data ignores, so it is not kept in the state.  `where` is the
\* place an exception came from: np.random.choice (line 286), the child's
\* generator (lines 288, 291) or the unpacking at line 219.
CombGenStep(c, g) ==
    IF g.st \in {"done", "error"} THEN {[comb |-> c, cit |-> g, sig |-> "stop"]}
    ELSE IF g.i >= size(c)
    THEN {[comb |-> c, cit |-> [g EXCEPT !.st = "done"], sig |-> "stop"]}
    ELSE {[comb |-> [c EXCEPT !.iters = r.iters],
           cit |-> IF r.sig = "raise"
                   THEN [g EXCEPT !.st = "error", !.k = r.k, !.exc = r.exc,
                                  !.where = r.where]
                   ELSE IF Len(r.val) # 2
                   THEN [g EXCEPT !.st = "error", !.k = r.k, !.exc = "ValueError",
                                  !.where = "unpack"]
                   ELSE [st |-> "running", i |-> g.i + 1, k |-> r.k,
                         last |-> Flatten(c, r.val[1], r.val[2], 0),
                         exc |-> "none", where |-> "none"],
           sig |-> IF r.sig = "raise" \/ Len(r.val) # 2 THEN "raise" ELSE "yield"] :
             r \in CombinedDataset_get_one_data(c)}

\* next(cit)
Next_cit ==
    /\ cit.st \in {"created", "running"}
    /\ \E r \in CombGenStep(comb, cit) :
          /\ comb' = r.comb
          /\ cit' = r.cit
    /\ UNCHANGED <<cargs, cerr, cit2, cepoch>>
    /\ UNCHANGED dsvars
    /\ UNCHANGED dlvars

NextComb == BuildComb \/ CombGetData \/ Next_cit
SpecComb == InitComb /\ [][NextComb]_vars

\* ------------------------------------------------------- CustomDataLoader
MaxBatch == 3     \* largest batch_size
MaxThreads == 3   \* largest num_threads

\* bool(remainder) for remainder in None, True, False
PyTruth(v) == v = "True"

\* the constructor with `if remainder is None:` in place of line 67
CustomDataLoader__init__IsNone(dataset, batch_size, num_threads, remainder) ==
    LET inferred == IF "is_train" \in DOMAIN dataset
                    THEN (IF dataset.is_train THEN "False" ELSE "True")
                    ELSE "False"
        rem == IF remainder = "None" THEN inferred ELSE remainder
    IN  [cls |-> "CustomDataLoader", ds0 |-> dataset, batch_size |-> batch_size,
         num_threads |-> num_threads,
         remainder |-> rem,
         nr_proc |-> IF ~PyTruth(rem) THEN num_threads ELSE 1]

\* CustomDataLoader.__init__(dataset, batch_size, num_threads, remainder):
\* the arguments it hands to BatchData and PrefetchDataZMQ
CustomDataLoader__init__(dataset, batch_size, num_threads, remainder) ==
    LET inferred == IF "is_train" \in DOMAIN dataset
                    THEN (IF dataset.is_train THEN "False" ELSE "True")
                    ELSE "False"
        rem == IF ~PyTruth(remainder) THEN inferred ELSE remainder
    IN  [cls |-> "CustomDataLoader", ds0 |-> dataset, batch_size |-> batch_size,
         num_threads |-> num_threads,
         remainder |-> rem,
         nr_proc |-> IF ~PyTruth(rem) THEN num_threads ELSE 1]

\* a dataflow that is not a BaseDataset and has no is_train attribute
ForeignDataFlow == [cls |-> "DataFlow"]

\* a CustomDataLoader constructor call about to run
InitLoader ==
    /\ args = NoArgs /\ ds = NoObj /\ err = "none" /\ it = NoIter /\ epoch = 0
    /\ it2 = NoIter
    /\ CombIdle
    /\ \E b \in 1..MaxBatch, t \in 1..MaxThreads, r \in {"None", "True", "False"} :
         \/ \E n \in 1..MaxN, tr \in BOOLEAN :
              largs = [dataset |-> BaseDataset__init__(
                                     TestDatasetArgs(n, tr, NoSkip, None, FALSE, FALSE)).obj,
                       batch_size |-> b, num_threads |-> t, remainder |-> r]
         \/ largs = [dataset |-> ForeignDataFlow,
                     batch_size |-> b, num_threads |-> t, remainder |-> r]
    /\ dl = NoObj

\* the CustomDataLoader constructor call runs to its end
BuildLoader ==
    /\ largs # NoLoaderArgs
    /\ dl = NoObj
    /\ dl' = CustomDataLoader__init__(largs.dataset, largs.batch_size,
                                      largs.num_threads, largs.remainder)
    /\ UNCHANGED largs
    /\ UNCHANGED dsvars
    /\ UNCHANGED combvars

NextLoader == BuildLoader
SpecLoader == InitLoader /\ [][NextLoader]_vars

\* ------------------------------------------------- unreadable image files
\* the sets of unreadable files tried for a list of n images: none or one
Unreadables(n) == {{}} \cup {{<<j>>} : j \in 0..(n - 1)}

\* a FileListDataset over n image files of label 0, those in bad unreadable
ImageList(n, tr, bad) ==
    WithUnreadable(FileListDatasetArgs([k \in 1..n |-> 0], tr, NoSkip, None,
                                       FALSE, FALSE), bad)

\* a constructor call about to run: a FileListDataset, or a
\* CombinedDataset of FileListDatasets, some of whose files cannot be read
InitFail ==
    /\ it = NoIter /\ it2 = NoIter /\ epoch = 0 /\ ds = NoObj
    /\ cit = NoCombIter /\ cit2 = NoCombIter /\ cepoch = 0 /\ comb = NoObj
    /\ LoaderIdle
    /\ \/ /\ \E n \in 1..MaxLen, tr \in BOOLEAN :
                \E bad \in Unreadables(n) : args = ImageList(n, tr, bad)
          /\ err = "running"
          /\ cargs = NoCombArgs /\ cerr = "none"
       \/ /\ args = NoArgs /\ err = "none"
          /\ \E K \in 1..MaxK :
               \E ch \in [1..K -> ChildSizes \X BOOLEAN], w \in [1..K -> MixVals] :
                 \E bad \in [1..K -> Unreadables(2)] :
                   /\ \A k \in 1..K : \A b \in bad[k] : b[1] < ch[k][1]
                   /\ cargs = [datasets |->
                                  [k \in 1..K |->
                                      BaseDataset__init__(
                                          ImageList(ch[k][1], ch[k][2], bad[k])).obj],
                               weights |-> w]
          /\ cerr = "running"

NextFail == Build \/ GetData \/ Next_it \/ BuildComb \/ CombGetData \/ Next_cit
SpecFail == InitFail /\ [][NextFail]_vars

\* ---------------------------------------- two iterations of one dataset
\* it2 = ds.get_data() while `it` may be alive
GetData2 ==
    /\ ds # NoObj
    /\ it2.st = "none"
    /\ it2' = Created
    /\ UNCHANGED <<args, ds, err, it, epoch>>
    /\ UNCHANGED combvars
    /\ UNCHANGED dlvars

\* next(it2)
Next_it2 ==
    /\ it2.st \in {"created", "running"}
    /\ it2' \in GenNext(ds, it2)
    /\ UNCHANGED <<args, ds, err, it, epoch>>
    /\ UNCHANGED combvars
    /\ UNCHANGED dlvars

\* del it2: the generator is dropped before its end; no code of get_data
\* runs (the loop has no try/finally)
Abandon2 ==
    /\ it2.st \in {"created", "running"}
    /\ it2' = [it2 EXCEPT !.st = "closed"]
    /\ UNCHANGED <<args, ds, err, it, epoch>>
    /\ UNCHANGED combvars
    /\ UNCHANGED dlvars

\* cit2 = comb.get_data() while `cit` may be alive
CombGetData2 ==
    /\ comb # NoObj
    /\ cit2.st = "none"
    /\ cit2' = [NoCombIter EXCEPT !.st = "created"]
    /\ UNCHANGED <<cargs, comb, cerr, cit, cepoch>>
    /\ UNCHANGED dsvars
    /\ UNCHANGED dlvars

\* next(cit2)
Next_cit2 ==
    /\ cit2.st \in {"created", "running"}
    /\ \E r \in CombGenStep(comb, cit2) :
          /\ comb' = r.comb
          /\ cit2' = r.cit
    /\ UNCHANGED <<cargs, cerr, cit, cepoch>>
    /\ UNCHANGED dsvars
    /\ UNCHANGED dlvars

\* del cit2
CombAbandon2 ==
    /\ cit2.st \in {"created", "running"}
    /\ cit2' = [cit2 EXCEPT !.st = "closed"]
    /\ UNCHANGED <<cargs, comb, cerr, cit, cepoch>>
    /\ UNCHANGED dsvars
    /\ UNCHANGED dlvars

\* a constructor call about to run: a TestDataset, or a CombinedDataset of
\* TestDatasets with one mixing weight per child
InitTwo ==
    /\ it = NoIter /\ it2 = NoIter /\ epoch = 0 /\ ds = NoObj
    /\ cit = NoCombIter /\ cit2 = NoCombIter /\ cepoch = 0 /\ comb = NoObj
    /\ LoaderIdle
    /\ \/ /\ \E n \in 1..MaxN, tr \in BOOLEAN :
                args = TestDatasetArgs(n, tr, NoSkip, None, FALSE, FALSE)
          /\ err = "running"
          /\ cargs = NoCombArgs /\ cerr = "none"
       \/ /\ args = NoArgs /\ err = "none"
          /\ \E K \in 1..MaxK :
               \E ch \in [1..K -> ChildSizes \X BOOLEAN], w \in [1..K -> MixVals] :
                   cargs = [datasets |->
                               [k \in 1..K |->
                                   BaseDataset__init__(
                                       TestDatasetArgs(ch[k][1], ch[k][2], NoSkip,
                                                       None, FALSE, FALSE)).obj],
                            weights |-> w]
          /\ cerr = "running"

NextTwo ==
    \/ Build \/ GetData \/ Next_it \/ GetData2 \/ Next_it2 \/ Abandon2
    \/ BuildComb \/ CombGetData \/ Next_cit \/ CombGetData2 \/ Next_cit2
    \/ CombAbandon2
SpecTwo == InitTwo /\ [][NextTwo]_vars

NextInit == Build
SpecInit == InitCall /\ [][NextInit]_vars

Next == NewIterated \/ GetData \/ Next_it
Spec == Init /\ [][Next]_vars

\* ------------------------------------------------------------ properties
NoDup(q) == \A x, y \in DOMAIN q : q[x] = q[y] => x = y
\* a weight w_i / w_j >= 3/2 for some i, j (cross-multiplied; no NaN)
RatioAtLeast15(w) ==
    /\ \A i \in DOMAIN w : w[i][2] > 0
    /\ \E i, j \in DOMAIN w : 2 * w[i][1] * w[j][2] >= 3 * w[j][1] * w[i][2]
                            /\ w[i][1] > 0
DenProd(w) == ProdSeq([i \in DOMAIN w |-> w[i][2]])
NonZeroIds(obj) == {k \in 0..(size(obj) - 1) : obj._weight[k + 1][1] > 0}

\* C1: a test-mode dataset fetches index i at step i in every epoch,
\* whatever its weights and uniform flag, and each finished epoch is
\* exactly 0, 1, ..., N-1
C1_TestModeOrder ==
    (ds # NoObj /\ ~ds.is_train) =>
        /\ it.st # "error"
        /\ it.fetched = RangeList(it.i)
        /\ \A k \in 1..Len(it.out) : it.out[k][1] = IF ds.cls = "TestDataset"
                                                    THEN Nd(ds.datas[k])
                                                    ELSE Image(ds.datas[k])
        /\ (it.st = "done" => it.i = Len(ds.datas))

\* a second epoch of a non-uniform test-mode dataset has finished
C1_Witness ==
    /\ ds # NoObj /\ ~ds.is_train /\ ~ds.uniform_weight_flag
    /\ args.sample_weight.kind = "list" /\ args.sample_weight.arr = <<3, 0, 2>>
    /\ epoch = 2 /\ it.st = "done" /\ it.fetched = <<0, 1, 2>>

\* C2: a train-mode dataset with the uniform flag set never fetches an
\* index twice in an epoch and a finished epoch has fetched every index of
\* 0..N-1 in exactly N steps
C2_UniformPermutation ==
    (ds # NoObj /\ ds.is_train /\ ds.uniform_weight_flag) =>
        /\ it.st # "error"
        /\ NoDup(it.fetched)
        /\ Range(it.fetched) \subseteq 0..(Len(ds.datas) - 1)
        /\ (it.st = "done" =>
              /\ Len(it.fetched) = Len(ds.datas)
              /\ Range(it.fetched) = 0..(Len(ds.datas) - 1))

\* a uniform train epoch finished in an order other than 0, 1, 2
C2_Witness ==
    /\ ds # NoObj /\ ds.is_train /\ ds.uniform_weight_flag
    /\ it.st = "done" /\ it.fetched = <<2, 0, 1>>

\* C3: in a train-mode dataset whose weights have max/min >= 1.5 every
\* step draws from the same set, the indices of non-zero weight, whatever
\* was drawn before, and a finished epoch has made exactly N draws
C3_NonUniformDraws ==
    (ds # NoObj /\ ds.is_train /\ RatioAtLeast15(ds._weight)) =>
        /\ ~ds.uniform_weight_flag
        /\ it.st # "error"
        /\ (it.i > 0 => /\ it.support = NonZeroIds(ds)
                        /\ Last(it.fetched) \in NonZeroIds(ds))
        /\ Len(it.fetched) = it.i
        /\ (it.st = "done" => Len(it.fetched) = Len(ds.datas))

\* weights 2 : 3 (ratio exactly 1.5): an epoch finished with index 1 drawn
\* twice and index 0 never
C3_Witness ==
    /\ ds # NoObj /\ ds.is_train /\ ds._weight = <<<<2, 5>>, <<3, 5>>>>
    /\ it.st = "done" /\ it.fetched = <<1, 1>>

\* labels as filled and their counts, before and after the filter pass
FilledLabels == _fill_data(args).labels
CountIn(labels, x) == Cardinality({i \in DOMAIN labels : labels[i] = x})
Kept == {i \in DOMAIN FilledLabels :
            ~SkipPred(args.skip_pred, _fill_data(args).datas[i], FilledLabels[i],
                      args.is_train)}
KthKept(k) == CHOOSE i \in Kept : Cardinality({j \in Kept : j < i}) = k - 1

C7_WeightsPositiveSumOne ==
    ds # NoObj =>
        /\ Len(ds._weight) = Len(ds.datas)
        /\ \A i \in DOMAIN ds._weight : ds._weight[i][1] > 0 /\ ds._weight[i][2] > 0
        /\ SumSeq([i \in DOMAIN ds._weight |->
                      ds._weight[i][1] * (DenProd(ds._weight) \div ds._weight[i][2])])
              = DenProd(ds._weight)

\* C8 as claimed: an explicit weight array whose length is not the
\* post-filter sample count makes construction fail
C8_LengthMismatchFails ==
    (/\ err # "running"
     /\ args.sample_weight.kind \in {"list", "ndarray"}
     /\ Len(args.sample_weight.arr) # Cardinality(Kept)) => ds = NoObj

\* C9: the stored records are the filled records that skip_pred does not
\* reject, in their original order, renumbered from 0, and size() is their
\* number
C9_FilterSubsequence ==
    ds # NoObj =>
        /\ size(ds) = Cardinality(Kept)
        /\ Len(ds.datas) = Cardinality(Kept) /\ Len(ds.labels) = Cardinality(Kept)
        /\ \A k \in 1..Cardinality(Kept) :
              /\ ds.datas[k] = _fill_data(args).datas[KthKept(k)]
              /\ ds.labels[k] = FilledLabels[KthKept(k)]

\* TestDataset(N=5) with a skip_pred rejecting labels > 5 keeps the records
\* of pre-filter indices 0, 1, 2
C9_Witness ==
    /\ ds # NoObj /\ args.cls = "TestDataset" /\ args.N = 5
    /\ args.skip_pred = [kind |-> "label_gt", t |-> 5]
    /\ size(ds) = 3
    /\ ds.datas = <<<<0, 1>>, <<1, 2>>, <<2, 3>>>> /\ ds.labels = <<1, 3, 5>>

\* C4 as claimed: no pull of a CombinedDataset ends in an exception, and a
\* finished epoch has made exactly sum-of-children-sizes steps
C4_EveryPullReturns ==
    comb # NoObj =>
        /\ cit.st # "error"
        /\ (cit.st = "done" =>
              cit.i = SumSeq([k \in DOMAIN comb.datasets |-> Len(comb.datasets[k].datas)]))

\* C5 as claimed: a CombinedDataset constructor call with
\* len(weights) # len(datasets) fails
C5_MismatchFails ==
    (cerr # "running" /\ Len(cargs.weights) # Len(cargs.datasets)) =>
        (comb = NoObj /\ cerr # "none")

\* C10 as claimed: the final-batch policy is the caller's remainder when
\* one is passed and is inferred (keep in test mode, drop otherwise) only
\* when none is passed
C10_RemainderPolicy ==
    dl # NoObj =>
        dl.remainder =
            IF largs.remainder # "None" THEN largs.remainder
            ELSE IF "is_train" \in DOMAIN largs.dataset /\ ~largs.dataset.is_train
                 THEN "True" ELSE "False"

\* C11: a loader built on a dataset with is_train = False hands nr_proc = 1
\* to the prefetch transport, whatever num_threads and remainder (None,
\* True or False) it was given
C11_TestModeOneWorker ==
    (dl # NoObj /\ "is_train" \in DOMAIN largs.dataset /\ ~largs.dataset.is_train) =>
        dl.nr_proc = 1

\* a test-mode loader asked for 3 threads and remainder = False runs 1 worker
C11_Witness ==
    /\ dl # NoObj /\ "is_train" \in DOMAIN largs.dataset /\ ~largs.dataset.is_train
    /\ largs.num_threads = 3 /\ largs.remainder = "False"
    /\ dl.num_threads = 3 /\ dl.nr_proc = 1

\* C13 as claimed: whatever the selected child's generator yielded for a
\* pull is what the combinator's step emits, component for component:
\* a yielded child item never ends the step in an exception, and the
\* emitted list equals the child's list
C13_EmitsChildItem ==
    comb # NoObj =>
        /\ ~(cit.st = "error" /\ cit.where = "unpack")
        /\ (cit.st = "running" =>
              cit.last = Last(comb.iters[cit.k + 1].out))

\* C14 as claimed: a fetch whose materializer failed leaves the stored
\* descriptors, labels and weights as construction left them, and the
\* generator of that epoch can go on to the remaining steps: the next()
\* after the failure is not the end of the sequence while steps remain
C14_FailureLeavesEpochUsable ==
    /\ (ds # NoObj => ds = BaseDataset__init__(args).obj)
    /\ (comb # NoObj =>
          /\ comb.datas = CombinedDataset__init__(cargs.datasets, cargs.weights).obj.datas
          /\ comb.labels = CombinedDataset__init__(cargs.datasets, cargs.weights).obj.labels
          /\ comb._weight = CombinedDataset__init__(cargs.datasets, cargs.weights).obj._weight
          /\ comb.datasets = cargs.datasets)
    /\ (ds # NoObj /\ it.st = "error" /\ it.exc = "IOError" /\ it.i + 1 < size(ds)) =>
          \A r \in GenStep(ds, it) : r.sig # "stop"
    /\ (comb # NoObj /\ cit.st = "error" /\ cit.exc = "IOError"
          /\ cit.i + 1 < size(comb)) =>
          \A r \in CombGenStep(comb, cit) : r.sig # "stop"

\* the pass a child cursor is in: at most size items, 0, 1, ... in order for
\* a test-mode child and without repetition for a uniform train-mode child
PassOK(child, g) ==
    /\ g.st \in {"created", "running"}
    /\ Len(g.fetched) <= size(child)
    /\ Range(g.fetched) \subseteq 0..(size(child) - 1)
    /\ (~child.is_train => g.fetched = RangeList(Len(g.fetched)))
    /\ (child.is_train /\ child.uniform_weight_flag => NoDup(g.fetched))
\* the cursor h is the cursor g after one more item of the same pass
Extends(g, h) ==
    /\ Len(h.fetched) = Len(g.fetched) + 1
    /\ SubSeq(h.fetched, 1, Len(g.fetched)) = g.fetched
    /\ (g.st = "running" => h.ids = g.ids)
\* the cursor h is a fresh pass after its first pull, g being a complete pass
Restarted(child, g, h) ==
    /\ Len(g.fetched) = size(child)
    /\ Len(h.fetched) = 1
\* this step is a fetch of the combinator that selected a child
IsPull == /\ cit.st \in {"created", "running"}
          /\ cit'.st \in {"running", "error"}
          /\ cit'.k >= 0

\* C12: every child cursor is always inside a legal pass; a step changes a
\* child cursor only by pulling from it, and the pull either continues the
\* pass by one item or, the pass being complete (size_k items), starts a
\* fresh pass; get_data() on the combinator (a new epoch) leaves every
\* cursor where it was.  So the items pulled from child k are complete
\* passes followed by a prefix of one pass.
C12_RestartOnlyWhenExhausted ==
    [][/\ comb' # NoObj =>
             \A k \in DOMAIN comb'.iters : PassOK(comb'.datasets[k], comb'.iters[k])
       /\ (comb # NoObj /\ comb' # NoObj) =>
             \A k \in DOMAIN comb.iters :
                IF IsPull /\ cit'.k = k - 1
                THEN \/ Extends(comb.iters[k], comb'.iters[k])
                     \/ Restarted(comb.datasets[k], comb.iters[k], comb'.iters[k])
                ELSE comb'.iters[k] = comb.iters[k]]_vars

\* only child 0 (2 items, train mode) is mixed in: the first fetch of the
\* second epoch is its 4th pull and completes its second pass, which the
\* last fetch of the first epoch began
C12_Witness ==
    /\ comb # NoObj /\ cargs.weights = <<1, 0>>
    /\ Len(comb.datasets) = 2 /\ size(comb.datasets[1]) = 2 /\ size(comb.datasets[2]) = 1
    /\ comb.datasets[1].is_train
    /\ cepoch = 2 /\ cit.st = "running" /\ cit.i = 1 /\ cit.k = 0
    /\ comb.iters[1].fetched = <<1, 0>>

\* a generator that has been obtained and has not finished
Live(g) == g.st \in {"created", "running"}

\* C15 as claimed: no step changes the descriptor, label and weight
\* arrays of a constructed dataset, and a step of one iteration never
\* changes state that another live iteration of the same instance reads
\* at its next step (for a CombinedDataset: the children and their cursors)
C15_IterationsIndependent ==
    [][/\ (ds # NoObj => ds' = ds)
       /\ (comb # NoObj =>
              /\ comb'.datas = comb.datas /\ comb'.labels = comb.labels
              /\ comb'._weight = comb._weight /\ comb'.weights = comb.weights
              /\ comb'.datasets = comb.datasets)
       /\ (comb # NoObj /\ cit2' # cit2 /\ Live(cit)) => comb'.iters = comb.iters
       /\ (comb # NoObj /\ cit' # cit /\ Live(cit2)) => comb'.iters = comb.iters]_vars

====
